---- MODULE Spec2Model ----
(***************************************************************************)
(* SpecterScope (src/specterscope.py): a bulk reconnaissance tool.  For    *)
(* every target host run_recon starts one probe (bound_recon ->            *)
(* recon_target) as an asyncio task; an asyncio.Semaphore(concurrency)     *)
(* admits at most `concurrency` probes at a time and asyncio.as_completed  *)
(* hands the finished probes to the collecting loop in completion order.   *)
(*                                                                         *)
(* The model is the single-threaded event loop: exactly one coroutine      *)
(* (`running`) executes at a time and runs until it suspends; callbacks    *)
(* scheduled with call_soon wait in the FIFO `ready`; network events       *)
(* (HTTP response, transport error, timer expiry) are delivered only       *)
(* while the loop is between callbacks.                                    *)
(***************************************************************************)
EXTENDS Integers, Sequences, FiniteSets, TLC

(***************************************************************************)
(* Bounds of the model.                                                    *)
(***************************************************************************)
MaxTargets == 2        \* longest target list given with -l
MaxConcurrency == 2    \* largest value given with -c

(***************************************************************************)
(* Program constants.                                                      *)
(***************************************************************************)
HTTP_TIMEOUT == 5      \* session.get(url, timeout=5)

Targets == {"a.test", "b.test"}

TargetLists == UNION {[1..n -> Targets] : n \in 0..MaxTargets}

\* -c values: a negative one, zero, and the positive ones up to the bound
Concurrencies == (-1)..MaxConcurrency

(***************************************************************************)
(* Python values: dict as a function on its keys, list as a sequence.      *)
(***************************************************************************)
EmptyDict == [k \in {} |-> ""]

Unset == [unset |-> TRUE]

\* an assignment that starts a new dict instead of adding to the old one
PutAlone(d, k, v) == [x \in {k} |-> v]

Put(d, k, v) == [x \in (DOMAIN d) \cup {k} |-> IF x = k THEN v ELSE d[x]]

PyNone == [kind |-> "none"]
PyStr(s) == [kind |-> "str", s |-> s]
PyInt(n) == [kind |-> "int", n |-> n]

\* truth value of a Python object (the `if v` of whois_lookup)
Truthy(v) ==
    CASE v.kind = "none" -> FALSE
      [] v.kind = "str" -> v.s # ""
      [] v.kind = "int" -> v.n # 0

\* str(v)
Str(v) ==
    CASE v.kind = "none" -> "None"
      [] v.kind = "str" -> v.s
      [] v.kind = "int" -> ToString(v.n)

\* dict(multidict): the keys of the pairs, each with the first value it has
FirstIndex(pairs, k) ==
    CHOOSE j \in DOMAIN pairs :
        /\ pairs[j][1] = k
        /\ \A h \in DOMAIN pairs : pairs[h][1] = k => j <= h

DictOfPairs(pairs) ==
    [k \in {pairs[j][1] : j \in DOMAIN pairs} |-> pairs[FirstIndex(pairs, k)][2]]

\* datetime.isoformat()
IsoFormat(ts) == "1970-01-01T00:00:0" \o ToString(ts)

(***************************************************************************)
(* What the outside world answers when a lookup succeeds.                  *)
(***************************************************************************)
DnsAnswers(target, rdtype) ==
    IF rdtype = "A"
    THEN IF target = "a.test"
         THEN << [address |-> "192.0.2.1"], [address |-> "192.0.2.2"] >>
         ELSE << [address |-> "198.51.100.7"] >>
    ELSE IF target = "a.test"
         THEN << [preference |-> 10, exchange |-> "mx1.a.test."] >>
         ELSE << [preference |-> 5, exchange |-> "mail.b.test."],
                 [preference |-> 20, exchange |-> "backup.b.test."] >>

WhoisEntry(target) ==
    IF target = "a.test"
    THEN [domain_name |-> PyStr("A.TEST"), registrar |-> PyNone,
          expiration_date |-> PyInt(2030), status |-> PyStr("")]
    ELSE [domain_name |-> PyNone, registrar |-> PyNone]

ResponseHeaders(target) ==
    IF target = "a.test"
    THEN << <<"Server", "nginx">>, <<"Set-Cookie", "a=1">>, <<"Set-Cookie", "b=2">> >>
    ELSE << <<"Server", "Apache">> >>

(***************************************************************************)
(* The lookup functions, by outcome of the library call they wrap.         *)
(***************************************************************************)
\* dns_lookup, lines 42-46: the 'A' query
DnsQueryA(target, outcome) ==
    IF outcome = "ok"
    THEN [j \in DOMAIN DnsAnswers(target, "A") |-> DnsAnswers(target, "A")[j].address]
    ELSE << >>

\* dns_lookup, lines 47-51: the 'MX' query
DnsQueryMX(target, outcome) ==
    IF outcome = "ok"
    THEN [j \in DOMAIN DnsAnswers(target, "MX") |-> DnsAnswers(target, "MX")[j].exchange]
    ELSE << >>

\* a whois_lookup whose except branch returns an error entry instead of {}
whois_lookup_error_entry(target, outcome) ==
    IF outcome = "ok"
    THEN LET w == WhoisEntry(target)
         IN  [k \in {x \in DOMAIN w : Truthy(w[x])} |-> Str(w[k])]
    ELSE [error |-> "lookup failed"]

whois_lookup(target, outcome) ==
    IF outcome = "ok"
    THEN LET w == WhoisEntry(target)
         IN  [k \in {x \in DOMAIN w : Truthy(w[x])} |-> Str(w[k])]
    ELSE EmptyDict

fetch_http_headers(target, outcome) ==
    IF outcome = "ok"
    THEN DictOfPairs(ResponseHeaders(target))
    ELSE EmptyDict

\* a ReconResult built with whois_data and http_headers exchanged
ReconResultSwapped(target, dns_records, whois_data, http_headers, timestamp) ==
    [target |-> target, dns_records |-> dns_records, whois_data |-> http_headers,
     http_headers |-> whois_data, timestamp |-> timestamp]

ReconResult(target, dns_records, whois_data, http_headers, timestamp) ==
    [target |-> target, dns_records |-> dns_records, whois_data |-> whois_data,
     http_headers |-> http_headers, timestamp |-> timestamp]

\* asdict(r) under json_converter: the timestamp becomes its ISO-8601 string
json_converter(r) == [r EXCEPT !.timestamp = IsoFormat(r.timestamp)]

(***************************************************************************)
(* asyncio.Semaphore: a counter and a FIFO of waiting tasks.  release()    *)
(* hands the slot to the longest waiting task if there is one.             *)
(***************************************************************************)
\* a gate that never makes a task wait
SemLockedNever(value, wts) == FALSE

\* a gate that looks at the queue of waiting tasks and not at the free slots
SemLockedQueueOnly(value, wts) == wts # << >>

\* a gate that lets one task too many in
SemLockedOffByOne(value, wts) == value < 0 \/ wts # << >>

SemLocked(value, wts) == value = 0 \/ wts # << >>

\* a release that hands the slot to a waiting task and counts it free as well
SemReleaseDouble(value, wts) ==
    IF wts # << >>
    THEN [value |-> value + 1, woken |-> << Head(wts) >>, waiters |-> Tail(wts)]
    ELSE [value |-> value + 1, woken |-> << >>, waiters |-> wts]

\* a release that counts the slot but wakes nobody
SemReleaseNoWake(value, wts) ==
    [value |-> value + 1, woken |-> << >>, waiters |-> wts]

SemRelease(value, wts) ==
    IF wts # << >>
    THEN [value |-> value, woken |-> << Head(wts) >>, waiters |-> Tail(wts)]
    ELSE [value |-> value + 1, woken |-> << >>, waiters |-> wts]

\* a queue that hands out the newest entry first
QueuePutFront(q, f) == << f >> \o q

\* asyncio.Queue.put_nowait of as_completed's `done` queue
QueuePut(q, f) == Append(q, f)

(***************************************************************************)
(* State.                                                                  *)
(***************************************************************************)
VARIABLES
    argv,         \* parsed command line: target, list, concurrency
    profile,      \* how FaultyHost behaves in this run
    mainpc,       \* where run_cli / run_recon stands
    targets,      \* run_recon's `targets`
    session,      \* the aiohttp.ClientSession: "none", "open", "closed"
    semValue,     \* sem._value
    waiters,      \* sem._waiters: tasks suspended in sem.acquire()
    tpc,          \* per task: where the probe stands
    loc,          \* per task: recon_target's local variables
    io,           \* per task: what the HTTP request came back with
    calls,        \* per task and provider: number of calls and last outcome
    tres,         \* per task: the task's result
    ready,        \* the event loop's FIFO of scheduled callbacks
    running,      \* the callback now executing
    doneq,        \* as_completed's queue of finished tasks
    future,       \* the loop variable `future`: the task taken from doneq
    results,      \* run_recon's `results`
    stdout,       \* lines printed
    report,       \* content of specterscope_report.json
    now,          \* the wall clock
    interrupted,  \* the run was cancelled (KeyboardInterrupt)
    completed,    \* history: the tasks in the order they ended normally
    admittedAfter \* history, per task: how many probes had ended when it got its slot

vars == << argv, profile, mainpc, targets, session, semValue, waiters, tpc, loc, io, calls,
           tres, ready, running, doneq, future, results, stdout, report, now,
           interrupted, completed, admittedAfter >>

Providers == {"A", "MX", "WHOIS", "HTTP"}

Idle == << "idle", 0 >>
Main == << "main", 0 >>
\* a task whose every step gives the event loop back, as if each step awaited
TaskYields(i) == << "idle", 0 >>

Task(i) == << "task", i >>
Step(i) == << "step", i >>
Callback(i) == << "cb", i >>

Tasks == DOMAIN tpc

NoCalls == [p \in Providers |-> [n |-> 0, outcome |-> "none"]]

NoLocals == [dns_records |-> Unset, whois_data |-> Unset, http_headers |-> Unset]

\* no HTTP request of the task is in flight
NoRequest == [outcome |-> "none", waited |-> 0]

\* The providers answer by host: a host has MX records or has none, is
\* registered or is not, serves HTTP, refuses the connection or stays silent,
\* has a name that makes a URL or has not.  One host is healthy; the other
\* has any combination of these faults, the same during the whole run.
FaultyHost == "b.test"

BlockingLookups == {"A", "MX", "WHOIS"}

HttpBehaviours == {"answers", "refuses", "silent", "invalid"}

Healthy == [lookups |-> {}, http |-> "answers"]

Profiles == [lookups : SUBSET BlockingLookups, http : HttpBehaviours]

ProfileOf(target) == IF target = FaultyHost THEN profile ELSE Healthy

LookupOutcome(target, p) ==
    IF p \in ProfileOf(target).lookups THEN "fail" ELSE "ok"

\* when the host's answer (or refusal) reaches the client; a silent host's never
\* does within the timeout
ResponseTime(target) ==
    IF ProfileOf(target).http = "silent" THEN HTTP_TIMEOUT + 1 ELSE HTTP_TIMEOUT - 1

\* a request without a timer
TimerNever(target) == FALSE

\* session.get(url, timeout=5): the request's timer expires before the host
\* has answered
TimerExpires(target) == ResponseTime(target) >= HTTP_TIMEOUT

Range(seq) == {seq[j] : j \in DOMAIN seq}

Probed(a) == IF a.has_target THEN {a.target} ELSE Range(a.list)

\* a lookup that is tried a second time when it fails
CalledWithRetry(c, p, outcome) ==
    [c EXCEPT ![p] = [n |-> c[p].n + (IF outcome = "fail" THEN 2 ELSE 1),
                      outcome |-> outcome]]

Called(c, p, outcome) == [c EXCEPT ![p] = [n |-> c[p].n + 1, outcome |-> outcome]]

Init ==
    /\ argv \in
         {[has_target |-> FALSE, target |-> "", has_list |-> FALSE, list |-> << >>,
           concurrency |-> c] : c \in Concurrencies}
         \cup
         {[has_target |-> TRUE, target |-> t, has_list |-> FALSE, list |-> << >>,
           concurrency |-> c] : t \in Targets, c \in Concurrencies}
         \cup
         {[has_target |-> FALSE, target |-> "", has_list |-> TRUE, list |-> l,
           concurrency |-> c] : l \in TargetLists, c \in Concurrencies}
    /\ profile \in IF FaultyHost \in Probed(argv) THEN Profiles ELSE {Healthy}
    /\ mainpc = "cli"
    /\ targets = << >>
    /\ session = "none"
    /\ semValue = 0
    /\ waiters = << >>
    /\ tpc = << >>
    /\ loc = << >>
    /\ io = << >>
    /\ calls = << >>
    /\ tres = << >>
    /\ ready = << >>
    /\ running = Main
    /\ doneq = << >>
    /\ future = 0
    /\ results = << >>
    /\ stdout = << >>
    /\ report = << >>
    /\ now = 0
    /\ interrupted = FALSE
    /\ completed = << >>
    /\ admittedAfter = << >>

(***************************************************************************)
(* run_cli and run_recon: the main coroutine.                              *)
(***************************************************************************)
\* run_cli, lines 99-107: neither -t nor -l
CliNoTarget ==
    /\ mainpc = "cli"
    /\ ~argv.has_target /\ ~argv.has_list
    /\ stdout' = Append(stdout, "Please provide -t <target> or -l <file>")
    /\ mainpc' = "usage"
    /\ running' = Idle
    /\ UNCHANGED << argv, profile, admittedAfter, completed, targets, session,
                    semValue, waiters, tpc, loc, io, calls, tres, ready,
                    doneq, future, results, report, now, interrupted >>

\* run_cli, lines 99-109: -t wins over -l
CliCollectTargets ==
    /\ mainpc = "cli"
    /\ argv.has_target \/ argv.has_list
    /\ targets' = IF argv.has_target THEN << argv.target >> ELSE argv.list
    /\ stdout' = Append(stdout, "[INFO] Starting SpecterScope recon")
    /\ mainpc' = "run_recon"
    /\ UNCHANGED << argv, profile, admittedAfter, completed, session,
                    semValue, waiters, tpc, loc, io, calls, tres, ready,
                    running, doneq, future, results, report, now, interrupted >>

\* run_recon, lines 75-78 with Semaphore(concurrency) raising ValueError
\* for a negative value: the session is left by the exception
SemaphoreValueError ==
    /\ mainpc = "run_recon"
    /\ argv.concurrency < 0
    /\ session' = "closed"
    /\ mainpc' = "failed"
    /\ running' = Idle
    /\ UNCHANGED << argv, profile, admittedAfter, completed, targets,
                    semValue, waiters, tpc, loc, io, calls, tres, ready,
                    doneq, future, results, stdout, report, now, interrupted >>

\* run_recon, lines 75-84: session, semaphore, one coroutine per target, and
\* as_completed making a task of each
RunReconSetup ==
    /\ mainpc = "run_recon"
    /\ argv.concurrency >= 0
    /\ session' = "open"
    /\ semValue' = argv.concurrency
    /\ waiters' = << >>
    /\ tpc' = [i \in 1..Len(targets) |-> "created"]
    /\ loc' = [i \in 1..Len(targets) |-> NoLocals]
    /\ io' = [i \in 1..Len(targets) |-> NoRequest]
    /\ calls' = [i \in 1..Len(targets) |-> NoCalls]
    /\ tres' = [i \in 1..Len(targets) |-> Unset]
    /\ admittedAfter' = [i \in 1..Len(targets) |-> -1]
    /\ results' = << >>
    /\ mainpc' = "next"
    /\ UNCHANGED << argv, profile, completed, targets, ready, running, doneq,
                    future, stdout, report, now, interrupted >>

\* a loop that takes an empty set of tasks for one still to be waited for
AsCompletedExhaustedNonEmpty == Len(results) = Len(targets) /\ targets # << >>

\* a loop that ends when no finished task is left in the queue
AsCompletedExhaustedWhenDrained ==
    Len(results) = Len(targets) \/ (results # << >> /\ doneq = << >>)

\* a loop that ends one completion early
AsCompletedExhaustedEarly == Len(results) + 1 >= Len(targets)

\* as_completed has yielded len(todo) times: the for loop of line 84 ends
AsCompletedExhausted == Len(results) = Len(targets)

\* line 84, the loop is over; lines 77 and 88: leave the session, return
MainLoopExit ==
    /\ mainpc = "next"
    /\ AsCompletedExhausted
    /\ session' = "closed"
    /\ mainpc' = "returned"
    /\ running' = Idle
    /\ UNCHANGED << argv, profile, admittedAfter, completed, targets,
                    semValue, waiters, tpc, loc, io, calls, tres, ready,
                    doneq, future, results, stdout, report, now, interrupted >>

\* line 85, await future: no task has finished, the main coroutine suspends
MainSuspend ==
    /\ mainpc = "next"
    /\ ~AsCompletedExhausted
    /\ doneq = << >>
    /\ mainpc' = "await"
    /\ running' = Idle
    /\ UNCHANGED << argv, profile, admittedAfter, completed, targets, session,
                    semValue, waiters, tpc, loc, io, calls, tres, ready,
                    doneq, future, results, stdout, report, now, interrupted >>

\* line 85, await future: the next finished task is taken from the queue
MainTake ==
    /\ mainpc = "next"
    /\ ~AsCompletedExhausted
    /\ doneq # << >>
    /\ future' = Head(doneq)
    /\ doneq' = Tail(doneq)
    /\ mainpc' = "append"
    /\ UNCHANGED << argv, profile, admittedAfter, completed, targets, session,
                    semValue, waiters, tpc, loc, io, calls, tres, ready,
                    running, results, stdout, report, now, interrupted >>

\* line 86
MainAppend ==
    /\ mainpc = "append"
    /\ results' = Append(results, tres[future])
    /\ mainpc' = "print"
    /\ UNCHANGED << argv, profile, admittedAfter, completed, targets, session,
                    semValue, waiters, tpc, loc, io, calls, tres, ready,
                    running, doneq, future, stdout, report, now, interrupted >>

\* a progress line that does not name the target
ProgressLineAnonymous(result) == "[INFO] Finished recon"

ProgressLine(result) == "[INFO] Finished recon for " \o result.target

\* line 87
MainPrint ==
    /\ mainpc = "print"
    /\ stdout' = Append(stdout, ProgressLine(results[Len(results)]))
    /\ mainpc' = "next"
    /\ UNCHANGED << argv, profile, admittedAfter, completed, targets, session,
                    semValue, waiters, tpc, loc, io, calls, tres, ready,
                    running, doneq, future, results, report, now, interrupted >>

\* run_cli, lines 115-118
SaveReport ==
    /\ mainpc = "returned"
    /\ report' = [j \in DOMAIN results |-> json_converter(results[j])]
    /\ stdout' = Append(stdout, "[INFO] Recon complete")
    /\ mainpc' = "saved"
    /\ UNCHANGED << argv, profile, admittedAfter, completed, targets, session,
                    semValue, waiters, tpc, loc, io, calls, tres, ready,
                    running, doneq, future, results, now, interrupted >>

(***************************************************************************)
(* bound_recon / recon_target: one task per target.                        *)
(***************************************************************************)
NoneCreated == \A j \in Tasks : tpc[j] # "created"

\* The first step of a task.  as_completed makes the tasks from a set of
\* the coroutines, so they start in the set's order, which is any order;
\* all of them start before anything scheduled later.
TaskStart(i) ==
    /\ running = Idle
    /\ mainpc = "await"
    /\ ~interrupted
    /\ tpc[i] = "created"
    /\ tpc' = [tpc EXCEPT ![i] = "acquire"]
    /\ running' = Task(i)
    /\ UNCHANGED << argv, profile, admittedAfter, completed, mainpc, targets,
                    session, semValue, waiters, loc, io, calls, tres, ready,
                    doneq, future, results, stdout, report, now, interrupted >>

\* line 80, async with sem: a free slot is taken without suspending
AcquireSlot(i) ==
    /\ running = Task(i)
    /\ tpc[i] = "acquire"
    /\ ~SemLocked(semValue, waiters)
    /\ semValue' = semValue - 1
    /\ admittedAfter' = [admittedAfter EXCEPT ![i] = Len(completed)]
    /\ tpc' = [tpc EXCEPT ![i] = "dns_A"]
    /\ UNCHANGED << argv, profile, completed, mainpc, targets, session,
                    waiters, loc, io, calls, tres, ready, running, doneq,
                    future, results, stdout, report, now, interrupted >>

\* line 80, async with sem: no free slot, the task suspends in acquire()
AcquireWait(i) ==
    /\ running = Task(i)
    /\ tpc[i] = "acquire"
    /\ SemLocked(semValue, waiters)
    /\ waiters' = Append(waiters, i)
    /\ tpc' = [tpc EXCEPT ![i] = "waiting"]
    /\ running' = Idle
    /\ UNCHANGED << argv, profile, admittedAfter, completed, mainpc, targets,
                    session, semValue, loc, io, calls, tres, ready, doneq,
                    future, results, stdout, report, now, interrupted >>

\* dns_lookup, lines 41-46 (called at line 62): the blocking 'A' query
DnsLookupA(i) ==
    /\ running = Task(i)
    /\ tpc[i] = "dns_A"
    /\ LET outcome == LookupOutcome(targets[i], "A")
       IN  /\ loc' = [loc EXCEPT ![i].dns_records =
                          Put(EmptyDict, "A", DnsQueryA(targets[i], outcome))]
           /\ calls' = [calls EXCEPT ![i] = Called(@, "A", outcome)]
    /\ tpc' = [tpc EXCEPT ![i] = "dns_MX"]
    /\ UNCHANGED << argv, profile, admittedAfter, completed, mainpc, targets,
                    session, semValue, waiters, io, tres, ready, running,
                    doneq, future, results, stdout, report, now, interrupted >>

\* dns_lookup, lines 47-52: the blocking 'MX' query
DnsLookupMX(i) ==
    /\ running = Task(i)
    /\ tpc[i] = "dns_MX"
    /\ LET outcome == LookupOutcome(targets[i], "MX")
       IN  /\ loc' = [loc EXCEPT ![i].dns_records =
                          Put(@, "MX", DnsQueryMX(targets[i], outcome))]
           /\ calls' = [calls EXCEPT ![i] = Called(@, "MX", outcome)]
    /\ tpc' = [tpc EXCEPT ![i] = "whois"]
    /\ UNCHANGED << argv, profile, admittedAfter, completed, mainpc, targets,
                    session, semValue, waiters, io, tres, ready, running,
                    doneq, future, results, stdout, report, now, interrupted >>

\* line 63: the blocking whois_lookup
WhoisLookup(i) ==
    /\ running = Task(i)
    /\ tpc[i] = "whois"
    /\ LET outcome == LookupOutcome(targets[i], "WHOIS")
       IN  /\ loc' = [loc EXCEPT ![i].whois_data = whois_lookup(targets[i], outcome)]
           /\ calls' = [calls EXCEPT ![i] = Called(@, "WHOIS", outcome)]
    /\ tpc' = [tpc EXCEPT ![i] = "http_get"]
    /\ UNCHANGED << argv, profile, admittedAfter, completed, mainpc, targets,
                    session, semValue, waiters, io, tres, ready, running,
                    doneq, future, results, stdout, report, now, interrupted >>

\* lines 64 and 35: session.get is sent and the task suspends on the answer
HttpGetSuspend(i) ==
    /\ running = Task(i)
    /\ tpc[i] = "http_get"
    /\ ProfileOf(targets[i]).http # "invalid"
    /\ io' = [io EXCEPT ![i] = [outcome |-> "pending", waited |-> 0]]
    /\ calls' = [calls EXCEPT ![i] = Called(@, "HTTP", "pending")]
    /\ tpc' = [tpc EXCEPT ![i] = "http"]
    /\ running' = Idle
    /\ UNCHANGED << argv, profile, admittedAfter, completed, mainpc, targets,
                    session, semValue, waiters, loc, tres, ready, doneq,
                    future, results, stdout, report, now, interrupted >>

\* lines 64 and 35-38: session.get raises before it suspends (a URL it
\* cannot parse, a closed session): the exception is caught at once
HttpGetRaises(i) ==
    /\ running = Task(i)
    /\ tpc[i] = "http_get"
    /\ ProfileOf(targets[i]).http = "invalid"
    /\ io' = [io EXCEPT ![i] = [outcome |-> "error", waited |-> 0]]
    /\ calls' = [calls EXCEPT ![i] = Called(@, "HTTP", "error")]
    /\ tpc' = [tpc EXCEPT ![i] = "http_done"]
    /\ UNCHANGED << argv, profile, admittedAfter, completed, mainpc, targets,
                    session, semValue, waiters, loc, tres, ready, running,
                    doneq, future, results, stdout, report, now, interrupted >>

\* The host answers before the timeout: the task is scheduled to resume.
HttpResponse(i) ==
    /\ running = Idle
    /\ ~interrupted
    /\ tpc[i] = "http"
    /\ io[i].outcome = "pending"
    /\ ProfileOf(targets[i]).http = "answers"
    /\ ResponseTime(targets[i]) < HTTP_TIMEOUT
    /\ io' = [io EXCEPT ![i] = [outcome |-> "ok", waited |-> ResponseTime(targets[i])]]
    /\ ready' = Append(ready, Step(i))
    /\ UNCHANGED << argv, profile, admittedAfter, completed, mainpc, targets,
                    session, semValue, waiters, tpc, loc, calls, tres,
                    running, doneq, future, results, stdout, report, now,
                    interrupted >>

\* The connection fails before the timeout (refused, reset, no route).
HttpError(i) ==
    /\ running = Idle
    /\ ~interrupted
    /\ tpc[i] = "http"
    /\ io[i].outcome = "pending"
    /\ ProfileOf(targets[i]).http = "refuses"
    /\ ResponseTime(targets[i]) < HTTP_TIMEOUT
    /\ io' = [io EXCEPT ![i] = [outcome |-> "error", waited |-> ResponseTime(targets[i])]]
    /\ ready' = Append(ready, Step(i))
    /\ UNCHANGED << argv, profile, admittedAfter, completed, mainpc, targets,
                    session, semValue, waiters, tpc, loc, calls, tres,
                    running, doneq, future, results, stdout, report, now,
                    interrupted >>

\* The host has not answered when the request's timer (timeout=5) expires.
HttpTimeout(i) ==
    /\ running = Idle
    /\ ~interrupted
    /\ tpc[i] = "http"
    /\ io[i].outcome = "pending"
    /\ TimerExpires(targets[i])
    /\ io' = [io EXCEPT ![i] = [outcome |-> "timeout", waited |-> HTTP_TIMEOUT]]
    /\ ready' = Append(ready, Step(i))
    /\ UNCHANGED << argv, profile, admittedAfter, completed, mainpc, targets,
                    session, semValue, waiters, tpc, loc, calls, tres,
                    running, doneq, future, results, stdout, report, now,
                    interrupted >>

\* The loop runs the next scheduled callback: a task resumes, either in
\* acquire() with the slot it was handed, or in session.get with its answer.
TaskResume(i) ==
    /\ running = Idle
    /\ ~interrupted
    /\ NoneCreated
    /\ ready # << >>
    /\ Head(ready) = Step(i)
    /\ tpc[i] \in {"woken", "http"}
    /\ tpc' = [tpc EXCEPT ![i] = IF tpc[i] = "woken" THEN "dns_A" ELSE "http_done"]
    /\ ready' = Tail(ready)
    /\ running' = Task(i)
    /\ UNCHANGED << argv, profile, admittedAfter, completed, mainpc, targets,
                    session, semValue, waiters, loc, io, calls, tres, doneq,
                    future, results, stdout, report, now, interrupted >>

\* fetch_http_headers, lines 34-38, returns: the headers, or {} on any exception
HttpReturn(i) ==
    /\ running = Task(i)
    /\ tpc[i] = "http_done"
    /\ loc' = [loc EXCEPT ![i].http_headers =
                   fetch_http_headers(targets[i], io[i].outcome)]
    /\ calls' = [calls EXCEPT ![i]["HTTP"].outcome = io[i].outcome]
    /\ io' = [io EXCEPT ![i] = NoRequest]
    /\ tpc' = [tpc EXCEPT ![i] = "build"]
    /\ UNCHANGED << argv, profile, admittedAfter, completed, mainpc, targets,
                    session, semValue, waiters, tres, ready, running, doneq,
                    future, results, stdout, report, now, interrupted >>

\* datetime.utcnow(): every reading of the clock is later than the one before
UtcNow(clock) == clock + 1

\* recon_target, lines 65-71
BuildResult(i) ==
    /\ running = Task(i)
    /\ tpc[i] = "build"
    /\ now' = UtcNow(now)
    /\ tres' = [tres EXCEPT ![i] =
                   ReconResult(targets[i], loc[i].dns_records, loc[i].whois_data,
                               loc[i].http_headers, UtcNow(now))]
    /\ tpc' = [tpc EXCEPT ![i] = "release"]
    /\ UNCHANGED << argv, profile, admittedAfter, completed, mainpc, targets,
                    session, semValue, waiters, loc, io, calls, ready,
                    running, doneq, future, results, stdout, report,
                    interrupted >>

\* the tasks a release wakes, as callbacks of the loop
WakeSteps(woken) == [j \in DOMAIN woken |-> Step(woken[j])]

\* lines 80-81: the async with block is left, the slot is released, a waiting
\* task is woken, the task ends and its done callback is scheduled
ReleaseSlot(i) ==
    /\ running = Task(i)
    /\ tpc[i] = "release"
    /\ LET r == SemRelease(semValue, waiters)
       IN  /\ semValue' = r.value
           /\ waiters' = r.waiters
           /\ tpc' = [j \in Tasks |->
                        IF j = i THEN "finished"
                        ELSE IF \E h \in DOMAIN r.woken : r.woken[h] = j THEN "woken"
                        ELSE tpc[j]]
           /\ ready' = Append(ready \o WakeSteps(r.woken), Callback(i))
    /\ completed' = Append(completed, i)
    /\ admittedAfter' = [j \in Tasks |->
                           IF \E h \in DOMAIN SemRelease(semValue, waiters).woken :
                                 SemRelease(semValue, waiters).woken[h] = j
                           THEN Len(completed) + 1
                           ELSE admittedAfter[j]]
    /\ running' = Idle
    /\ UNCHANGED << argv, profile, mainpc, targets, session, loc, io, calls,
                    tres, doneq, future, results, stdout, report, now,
                    interrupted >>

\* a main coroutine that is woken only when no task is left, as with gather
MainWakesWhenAllDone(pc) ==
    pc = "await" /\ \A j \in Tasks : tpc[j] \in {"finished", "cancelled"}

\* done.put_nowait wakes the getter: the main coroutine suspended in done.get()
MainWakes(pc) == pc = "await"

\* as_completed's _on_completion: the finished task goes into the queue and
\* the main coroutine, if it waits on the queue, is scheduled
OnCompletion(i) ==
    /\ running = Idle
    /\ NoneCreated \/ interrupted
    /\ ready # << >>
    /\ Head(ready) = Callback(i)
    /\ doneq' = QueuePut(doneq, i)
    /\ IF MainWakes(mainpc)
       THEN /\ mainpc' = "awoken"
            /\ ready' = Append(Tail(ready), Main)
       ELSE /\ mainpc' = mainpc
            /\ ready' = Tail(ready)
    /\ UNCHANGED << argv, profile, admittedAfter, completed, targets, session,
                    semValue, waiters, tpc, loc, io, calls, tres, running,
                    future, results, stdout, report, now, interrupted >>

\* the main coroutine resumes in done.get()
MainResume ==
    /\ running = Idle
    /\ NoneCreated
    /\ ready # << >>
    /\ Head(ready) = Main
    /\ mainpc = "awoken"
    /\ mainpc' = "next"
    /\ ready' = Tail(ready)
    /\ running' = Main
    /\ UNCHANGED << argv, profile, admittedAfter, completed, targets, session,
                    semValue, waiters, tpc, loc, io, calls, tres, doneq,
                    future, results, stdout, report, now, interrupted >>

(***************************************************************************)
(* Cancellation: the run is interrupted while run_recon waits.  run_recon  *)
(* leaves the session with CancelledError and asyncio.run cancels every    *)
(* task that has not ended.                                                *)
(***************************************************************************)
IsCallback(h) == h[1] = "cb"

Interrupt ==
    /\ running = Idle
    /\ mainpc \in {"await", "awoken"}
    /\ ~interrupted
    /\ interrupted' = TRUE
    /\ mainpc' = "cancelled"
    /\ session' = "closed"
    /\ ready' = SelectSeq(ready, IsCallback)
    /\ UNCHANGED << argv, profile, admittedAfter, completed, targets,
                    semValue, waiters, tpc, loc, io, calls, tres, running,
                    doneq, future, results, stdout, report, now >>

Remove(seq, x) == SelectSeq(seq, LAMBDA y : y # x)

HoldsSlot(i) ==
    tpc[i] \in {"woken", "dns_A", "dns_MX", "whois", "http_get", "http", "http_done",
                "build", "release"}

\* a cancelled task that keeps its slot
CancelledValueLeak(value, holds) == value

\* what leaving `async with sem` does to sem._value when CancelledError
\* passes through it: every waiter is cancelled too, so nobody is woken
CancelledValue(value, holds) == IF holds THEN SemRelease(value, << >>).value ELSE value

\* CancelledError is thrown into the task where it is suspended
CancelTask(i) ==
    /\ running = Idle
    /\ interrupted
    /\ tpc[i] \in {"created", "waiting", "woken", "http"}
    /\ semValue' = CancelledValue(semValue, HoldsSlot(i))
    /\ waiters' = Remove(waiters, i)
    /\ io' = [io EXCEPT ![i] = NoRequest]
    /\ calls' = [calls EXCEPT ![i]["HTTP"].outcome =
                     IF tpc[i] = "http" THEN "cancelled" ELSE @]
    /\ tpc' = [tpc EXCEPT ![i] = "cancelled"]
    /\ UNCHANGED << argv, profile, admittedAfter, completed, mainpc, targets,
                    session, loc, tres, ready, running, doneq, future,
                    results, stdout, report, now, interrupted >>

Next ==
    \/ CliNoTarget
    \/ CliCollectTargets
    \/ SemaphoreValueError
    \/ RunReconSetup
    \/ MainLoopExit
    \/ MainSuspend
    \/ MainTake
    \/ MainAppend
    \/ MainPrint
    \/ SaveReport
    \/ MainResume
    \/ Interrupt
    \/ \E i \in Tasks : TaskStart(i)
    \/ \E i \in Tasks : AcquireSlot(i)
    \/ \E i \in Tasks : AcquireWait(i)
    \/ \E i \in Tasks : DnsLookupA(i)
    \/ \E i \in Tasks : DnsLookupMX(i)
    \/ \E i \in Tasks : WhoisLookup(i)
    \/ \E i \in Tasks : HttpGetSuspend(i)
    \/ \E i \in Tasks : HttpGetRaises(i)
    \/ \E i \in Tasks : HttpResponse(i)
    \/ \E i \in Tasks : HttpError(i)
    \/ \E i \in Tasks : HttpTimeout(i)
    \/ \E i \in Tasks : TaskResume(i)
    \/ \E i \in Tasks : HttpReturn(i)
    \/ \E i \in Tasks : BuildResult(i)
    \/ \E i \in Tasks : ReleaseSlot(i)
    \/ \E i \in Tasks : OnCompletion(i)
    \/ \E i \in Tasks : CancelTask(i)

Spec == Init /\ [][Next]_vars

(***************************************************************************)
(* Fairness: the event loop runs every scheduled callback, a running       *)
(* coroutine goes on to its next suspension (every blocking lookup         *)
(* returns), and every HTTP request ends, by its timer at the latest.      *)
(* Nothing obliges the user to interrupt the run.                          *)
(***************************************************************************)
Progress ==
    \/ CliNoTarget
    \/ CliCollectTargets
    \/ SemaphoreValueError
    \/ RunReconSetup
    \/ MainLoopExit
    \/ MainSuspend
    \/ MainTake
    \/ MainAppend
    \/ MainPrint
    \/ SaveReport
    \/ MainResume
    \/ \E i \in Tasks :
         \/ TaskStart(i)
         \/ AcquireSlot(i)
         \/ AcquireWait(i)
         \/ DnsLookupA(i)
         \/ DnsLookupMX(i)
         \/ WhoisLookup(i)
         \/ HttpGetSuspend(i)
         \/ HttpGetRaises(i)
         \/ HttpResponse(i)
         \/ HttpError(i)
         \/ HttpTimeout(i)
         \/ TaskResume(i)
         \/ HttpReturn(i)
         \/ BuildResult(i)
         \/ ReleaseSlot(i)
         \/ OnCompletion(i)
         \/ CancelTask(i)

\* A blocking lookup returns at once, with its answer or with its error:
\* which of them fail changes the record and not the schedule, so the runs
\* checked for progress take the faulty host with none or all of them failing.
LiveInit ==
    /\ Init
    /\ profile.lookups \in {{}, BlockingLookups}

LiveSpec == LiveInit /\ [][Next]_vars /\ WF_vars(Progress)

(***************************************************************************)
(* Weaker fairness: the event loop runs every scheduled callback and a     *)
(* running coroutine goes on to its next suspension, but nothing is        *)
(* assumed of the network or of the timers: a request may stay pending     *)
(* for ever, and the probe that made it then never completes.              *)
(***************************************************************************)
LoopStep ==
    \/ CliNoTarget
    \/ CliCollectTargets
    \/ SemaphoreValueError
    \/ RunReconSetup
    \/ MainLoopExit
    \/ MainSuspend
    \/ MainTake
    \/ MainAppend
    \/ MainPrint
    \/ SaveReport
    \/ MainResume
    \/ \E i \in Tasks :
         \/ TaskStart(i)
         \/ AcquireSlot(i)
         \/ AcquireWait(i)
         \/ DnsLookupA(i)
         \/ DnsLookupMX(i)
         \/ WhoisLookup(i)
         \/ HttpGetSuspend(i)
         \/ HttpGetRaises(i)
         \/ TaskResume(i)
         \/ HttpReturn(i)
         \/ BuildResult(i)
         \/ ReleaseSlot(i)
         \/ OnCompletion(i)
         \/ CancelTask(i)

StreamSpec == LiveInit /\ [][Next]_vars /\ WF_vars(LoopStep)

(***************************************************************************)
(* Properties.                                                             *)
(***************************************************************************)
InputTargets == IF argv.has_target THEN << argv.target >> ELSE argv.list

Returned == mainpc \in {"returned", "saved"}

Count(seq, x) == Cardinality({j \in DOMAIN seq : seq[j] = x})

TargetsOf(rs) == [j \in DOMAIN rs |-> rs[j].target]

Running == {i \in Tasks : HoldsSlot(i)}

Ended(i) == tpc[i] \in {"finished", "cancelled"}

\* what the lookups of a host return when they succeed, written out
ExpectedA(t) ==
    IF t = "a.test" THEN << "192.0.2.1", "192.0.2.2" >> ELSE << "198.51.100.7" >>

ExpectedMX(t) ==
    IF t = "a.test" THEN << "mx1.a.test." >> ELSE << "mail.b.test.", "backup.b.test." >>

ExpectedWhois(t) ==
    IF t = "a.test"
    THEN [domain_name |-> "A.TEST", expiration_date |-> "2030"]
    ELSE EmptyDict

ExpectedHeaders(t) ==
    IF t = "a.test"
    THEN ("Server" :> "nginx") @@ ("Set-Cookie" :> "a=1")
    ELSE ("Server" :> "Apache")

LookupFails(t, p) == p \in ProfileOf(t).lookups

HttpFails(t) == ProfileOf(t).http # "answers"

\* the record of a probe of host t: every field holds what its own lookup
\* returned, or the empty value if that lookup failed
DegradedRecord(r, t) ==
    /\ r.target = t
    /\ DOMAIN r.dns_records = {"A", "MX"}
    /\ r.dns_records["A"] = (IF LookupFails(t, "A") THEN << >> ELSE ExpectedA(t))
    /\ r.dns_records["MX"] = (IF LookupFails(t, "MX") THEN << >> ELSE ExpectedMX(t))
    /\ r.whois_data = (IF LookupFails(t, "WHOIS") THEN EmptyDict ELSE ExpectedWhois(t))
    /\ r.http_headers = (IF HttpFails(t) THEN EmptyDict ELSE ExpectedHeaders(t))

\* C1: when run_recon returns (concurrency >= 1), the Batch has as many
\* records as there are input targets and the record targets are the input
\* targets as a multiset: a target given k times has k records.
C1_OneRecordPerTarget ==
    (Returned /\ argv.concurrency >= 1) =>
        /\ Len(results) = Len(InputTargets)
        /\ \A t \in Targets : Count(TargetsOf(results), t) = Count(InputTargets, t)

C1_Witness ==
    /\ Returned
    /\ argv.concurrency >= 1
    /\ Len(InputTargets) = 2
    /\ InputTargets[1] = InputTargets[2]
    /\ Len(results) = 2

\* C2: with concurrency N >= 1 the number of probes that hold a slot of the
\* gate (acquired and not yet released) is never above N.
C2_RunningAtMostN ==
    (argv.concurrency >= 1) => Cardinality(Running) <= argv.concurrency

C2_Witness ==
    /\ argv.concurrency >= 1
    /\ Cardinality(Running) = argv.concurrency
    /\ waiters # << >>
    /\ \E i \in Tasks : tpc[i] = "http"

\* C3: whatever lookups fail for a host, its probe produces a record in which
\* each failed lookup leaves only its own field empty and the other fields
\* hold what their lookups returned; and every probe's record is in the
\* Batch when run_recon returns.
C3_PartialFailureIsolation ==
    /\ \A i \in Tasks :
          tpc[i] \in {"release", "finished"} => DegradedRecord(tres[i], targets[i])
    /\ Returned =>
          /\ \A i \in Tasks : \E j \in DOMAIN results : results[j] = tres[i]
          /\ \A j \in DOMAIN results : DegradedRecord(results[j], results[j].target)

C3_Witness ==
    /\ Returned
    /\ profile.lookups = {"WHOIS"}
    /\ profile.http = "refuses"
    /\ \E j, k \in DOMAIN results :
          /\ results[j].target = FaultyHost
          /\ results[j].dns_records["A"] # << >>
          /\ results[j].whois_data = EmptyDict
          /\ results[k].target # FaultyHost
          /\ results[k].http_headers # EmptyDict

AllLookupsFail(t) ==
    /\ ProfileOf(t).lookups = BlockingLookups
    /\ HttpFails(t)

\* C4 as stated: if every lookup fails for a host, the Batch has a record of
\* it whose dns_records, whois_data and http_headers are empty mappings.
C4_AllFailEmptyMappings ==
    Returned =>
        \A i \in Tasks : AllLookupsFail(targets[i]) =>
            \E j \in DOMAIN results :
                /\ results[j].target = targets[i]
                /\ results[j].dns_records = EmptyDict
                /\ results[j].whois_data = EmptyDict
                /\ results[j].http_headers = EmptyDict

\* C4 amended: if every lookup fails for a host, the Batch has a record of
\* it whose whois_data and http_headers are empty mappings and whose
\* dns_records maps 'A' and 'MX' to the empty sequence.
C4_AllFailEmptyRecord ==
    Returned =>
        \A i \in Tasks : AllLookupsFail(targets[i]) =>
            \E j \in DOMAIN results :
                /\ results[j].target = targets[i]
                /\ results[j].dns_records = [A |-> << >>, MX |-> << >>]
                /\ results[j].whois_data = EmptyDict
                /\ results[j].http_headers = EmptyDict

C4_Witness ==
    /\ Returned
    /\ profile.http = "silent"
    /\ \E i \in Tasks : AllLookupsFail(targets[i])
    /\ \E j \in DOMAIN results : results[j].target = FaultyHost

AllFinished == \A i \in Tasks : tpc[i] = "finished"

\* C5: run_recon returns only when every probe has completed and its record
\* is collected, never earlier; with concurrency >= 1 run_recon, once
\* called, eventually returns; and once the last probe has completed it
\* returns without waiting for anything else (in both cases unless the run
\* is interrupted from outside).
C5_Termination ==
    /\ [](Returned => (AllFinished /\ Len(results) = Len(targets)))
    /\ (\/ mainpc = "run_recon" /\ argv.concurrency >= 1
        \/ session = "open" /\ AllFinished) ~> (Returned \/ interrupted)

C5_Witness ==
    /\ mainpc = "returned"
    /\ argv.concurrency = 1
    /\ Len(targets) = 2
    /\ profile.http = "silent"

\* C6: the records of the Batch, and of the JSON array written from it, are
\* in the order in which the probes completed, whatever the probes'
\* positions in the input list.
C6_BatchInCompletionOrder ==
    /\ Len(results) <= Len(completed)
    /\ \A j \in DOMAIN results : results[j] = tres[completed[j]]
    /\ mainpc = "saved" =>
          /\ Len(report) = Len(completed)
          /\ \A j \in DOMAIN report :
                /\ report[j].target = targets[completed[j]]
                /\ report[j].timestamp = IsoFormat(tres[completed[j]].timestamp)

C6_Witness ==
    /\ mainpc = "saved"
    /\ Len(completed) = 2
    /\ completed[1] = 2
    /\ report[1].target # report[2].target

GateMade == mainpc \in {"next", "await", "awoken", "append", "print", "returned",
                        "saved", "cancelled"}

\* C7: a slot is given back exactly once by the probe that took it, however
\* the probe ends: the free slots and the held slots always add up to N,
\* and when every probe has ended, completed or cancelled, all N are free.
C7_SlotsConserved ==
    GateMade =>
        /\ semValue >= 0
        /\ semValue + Cardinality(Running) = argv.concurrency
        /\ (\A i \in Tasks : Ended(i)) => semValue = argv.concurrency

C7_Witness ==
    /\ interrupted
    /\ argv.concurrency >= 1
    /\ \A i \in Tasks : Ended(i)
    /\ \E i \in Tasks : tpc[i] = "cancelled" /\ calls[i]["HTTP"].outcome = "cancelled"
    /\ \E i \in Tasks : tpc[i] = "finished"
    /\ semValue = argv.concurrency

InvalidConfig == (~argv.has_target /\ ~argv.has_list) \/ argv.concurrency < 1

\* run_recon waits for a completion that cannot come
Hung ==
    /\ mainpc = "await"
    /\ running = Idle
    /\ ready = << >>
    /\ ~interrupted
    /\ Tasks # {}
    /\ \A i \in Tasks : tpc[i] = "waiting"

\* C8: with no target, or with a concurrency below 1, the run is refused
\* before any session, task or provider call is made, and it does not hang.
C8_InvalidConfigRejected ==
    InvalidConfig =>
        /\ ~Hung
        /\ \A i \in Tasks : \A p \in Providers : calls[i][p].n = 0

\* C9: with concurrency 1 no two probes hold the slot together, every probe
\* gets the slot only when all probes admitted before it have completed
\* (the k-th admitted probe is admitted after exactly k-1 completions), and
\* the Batch has one record per target, the k-th record being that of the
\* k-th admitted probe.
C9_SerialAdmissionOrder ==
    (argv.concurrency = 1) =>
        /\ Cardinality(Running) <= 1
        /\ \A i, k \in Tasks :
              (i # k /\ admittedAfter[i] >= 0 /\ admittedAfter[k] >= 0)
                  => admittedAfter[i] # admittedAfter[k]
        /\ \A i \in Running : admittedAfter[i] = Len(completed)
        /\ \A j \in DOMAIN completed : admittedAfter[completed[j]] = j - 1
        /\ Len(results) <= Len(completed)
        /\ \A j \in DOMAIN results :
              /\ results[j].target = targets[completed[j]]
              /\ admittedAfter[completed[j]] = j - 1
        /\ Returned => Len(results) = Len(InputTargets)

C9_Witness ==
    /\ Returned
    /\ argv.concurrency = 1
    /\ InputTargets = << "a.test", "b.test" >>
    /\ TargetsOf(results) = << "b.test", "a.test" >>
    /\ admittedAfter = << 1, 0 >>

InFlightSilent(i) ==
    /\ i \in Tasks
    /\ tpc[i] = "http"
    /\ ProfileOf(targets[i]).http = "silent"

\* C10: a request the host does not answer within the timeout ends with the
\* timer: fetch_http_headers returns {}, the record has http_headers = {},
\* no request holds its slot longer than the timeout, the probe ends and
\* frees its slot, and run_recon returns (unless the run is interrupted).
C10_TimeoutFreesSlot ==
    /\ [](\A i \in Tasks :
            /\ io[i].waited <= HTTP_TIMEOUT
            /\ (calls[i]["HTTP"].outcome = "timeout" /\ tpc[i] \in {"build", "release"})
                  => loc[i].http_headers = EmptyDict
            /\ (calls[i]["HTTP"].outcome = "timeout" /\ tpc[i] \in {"release", "finished"})
                  => tres[i].http_headers = EmptyDict)
    /\ (\E i \in Tasks : InFlightSilent(i)) ~>
          /\ Returned \/ interrupted
          /\ \A i \in Tasks : Ended(i) /\ ~HoldsSlot(i)
          /\ semValue = argv.concurrency

C10_Witness ==
    /\ Returned
    /\ profile = [lookups |-> {}, http |-> "silent"]
    /\ \E i \in Tasks : calls[i]["HTTP"].outcome = "timeout" /\ calls[i]["A"].outcome = "ok"
    /\ \E j \in DOMAIN results :
          results[j].target = FaultyHost /\ results[j].http_headers = EmptyDict

EmptyInput == argv.has_list /\ ~argv.has_target /\ argv.list = << >>

\* C11: for an empty target list and concurrency >= 1, run_recon makes no
\* task, so no DNS, WHOIS or HTTP call is ever made and nothing is ever
\* scheduled or requested; its Batch stays empty, the report written from it
\* is the empty array, and run_recon, once called, returns.
C11_EmptyInputEmptyBatch ==
    /\ []((EmptyInput /\ argv.concurrency >= 1) =>
            /\ Tasks = {}
            /\ calls = << >>
            /\ io = << >>
            /\ ready = << >>
            /\ doneq = << >>
            /\ results = << >>
            /\ report = << >>
            /\ mainpc # "await")
    /\ (EmptyInput /\ argv.concurrency >= 1 /\ mainpc = "run_recon")
          ~> (Returned /\ results = << >>)

C11_Witness ==
    /\ EmptyInput
    /\ argv.concurrency >= 1
    /\ mainpc = "saved"
    /\ session = "closed"
    /\ report = << >>
    /\ Len(stdout) = 2

\* the record of task i is in the Batch
Collected(i) == \E j \in 1..Len(results) : completed[j] = i

\* C12: a probe that has completed has its record appended to the Batch
\* whatever becomes of the other probes: with nothing assumed of the
\* requests of the others (they may stay pending for ever), completion of a
\* probe leads to its record being in results, unless the run is interrupted.
\* Records stay in results, so this is: again and again, every probe that
\* has completed so far has its record in results.
C12_StreamedAsCompleted ==
    []<>(interrupted \/ \A i \in Tasks : tpc[i] = "finished" => Collected(i))

C12_Witness ==
    /\ ~interrupted
    /\ mainpc = "await"
    /\ \E i \in Tasks :
          /\ tpc[i] = "finished"
          /\ Collected(i)
          /\ \E k \in Tasks : k # i /\ tpc[k] = "http" /\ io[k].outcome = "pending"

\* what line 87 prints for a target, written out
ExpectedLine(t) == "[INFO] Finished recon for " \o t

IsProgressLine(line) == \E t \in Targets : line = ExpectedLine(t)

\* the progress lines on standard output, in the order printed
ProgressLines == SelectSeq(stdout, IsProgressLine)

\* C13: one progress line per record, in Batch order, printed as the records
\* arrive: the j-th progress line names the j-th record's target; after a
\* record is appended and until its line is printed exactly that one line is
\* missing; everywhere else, in particular whenever run_recon waits for the
\* next completion, there are as many progress lines as records; and when
\* run_recon has returned there are as many as input targets.
C13_OneProgressLinePerRecord ==
    /\ Len(ProgressLines) <= Len(results)
    /\ \A j \in DOMAIN ProgressLines : ProgressLines[j] = ExpectedLine(results[j].target)
    /\ Len(ProgressLines) = IF mainpc = "print" THEN Len(results) - 1 ELSE Len(results)
    /\ (Returned /\ argv.concurrency >= 1) => Len(ProgressLines) = Len(InputTargets)

C13_Witness ==
    /\ mainpc = "await"
    /\ ~interrupted
    /\ Len(results) = 1
    /\ ProgressLines = << ExpectedLine(results[1].target) >>
    /\ \E i \in Tasks : tpc[i] = "http"

\* the lifecycle state of a probe, from where its task stands
Phase(pc) ==
    CASE pc \in {"created", "acquire", "waiting"} -> "Pending"
      [] pc = "finished" -> "Completed"
      [] pc = "cancelled" -> "Cancelled"
      [] OTHER -> "Running"

\* line 80: the task takes a free slot, or is handed the slot another task
\* releases, being the one that waited longest
TakesSlot(i) ==
    \/ /\ tpc[i] = "acquire"
       /\ semValue > 0
       /\ waiters = << >>
       /\ semValue' = semValue - 1
    \/ /\ tpc[i] = "waiting"
       /\ waiters # << >>
       /\ Head(waiters) = i
       /\ semValue' = semValue
       /\ \E k \in Tasks : k # i /\ Phase(tpc[k]) = "Running" /\ Phase(tpc'[k]) = "Completed"

LifecycleStep(i) ==
    \/ Phase(tpc'[i]) = Phase(tpc[i])
    \/ /\ Phase(tpc[i]) = "Pending"
       /\ Phase(tpc'[i]) = "Running"
       /\ TakesSlot(i)
    \/ /\ Phase(tpc[i]) = "Running"
       /\ Phase(tpc'[i]) = "Completed"
    \/ /\ Phase(tpc[i]) \in {"Pending", "Running"}
       /\ Phase(tpc'[i]) = "Cancelled"
       /\ interrupted

\* C14: every probe goes Pending -> Running -> Completed and no other way:
\* it becomes Running only from Pending and only by getting a slot, becomes
\* Completed only from Running, never goes back and never leaves Completed
\* (a probe of an interrupted run is cancelled from Pending or Running and
\* stays so); and its record is handed on (queued, taken, appended) only
\* when it is Completed.
C14_Lifecycle ==
    /\ [][\A i \in Tasks : LifecycleStep(i)]_vars
    /\ [](/\ \A j \in DOMAIN doneq : Phase(tpc[doneq[j]]) = "Completed"
          /\ mainpc \in {"append", "print"} => Phase(tpc[future]) = "Completed"
          /\ \A i \in Tasks : tres[i] # Unset => tpc[i] \in {"release", "finished"}
          /\ Len(results) <= Cardinality({i \in Tasks : Phase(tpc[i]) = "Completed"})
          /\ \A j \in DOMAIN results :
                \E i \in Tasks : Phase(tpc[i]) = "Completed" /\ results[j] = tres[i])

C14_Witness ==
    /\ Tasks = {1, 2}
    /\ argv.concurrency = 1
    /\ Phase(tpc[1]) = "Completed"
    /\ Phase(tpc[2]) = "Running"
    /\ admittedAfter[2] = 1
    /\ Len(results) = 1
    /\ waiters = << >>

\* the lookups a task has behind it where it stands
LookupsDone(pc) ==
    CASE pc \in {"created", "acquire", "waiting", "woken", "dns_A"} -> {}
      [] pc = "dns_MX" -> {"A"}
      [] pc = "whois" -> {"A", "MX"}
      [] pc = "http_get" -> {"A", "MX", "WHOIS"}
      [] OTHER -> Providers

\* C15: no lookup is repeated: for every task (one per occurrence of a
\* target in the input) each of the 'A' query, the 'MX' query, the WHOIS
\* lookup and the HTTP fetch has been attempted at most once at any time,
\* exactly once as soon as the task is past it and when the task has
\* completed, and this whether the attempt succeeded or failed.
C15_ExactlyOneAttempt ==
    /\ \A i \in Tasks : \A p \in Providers : calls[i][p].n <= 1
    /\ \A i \in Tasks : tpc[i] # "cancelled" =>
          \A p \in Providers : calls[i][p].n = (IF p \in LookupsDone(tpc[i]) THEN 1 ELSE 0)
    /\ (Returned /\ argv.concurrency >= 1) =>
          /\ Len(calls) = Len(InputTargets)
          /\ \A i \in Tasks : \A p \in Providers : calls[i][p].n = 1

C15_Witness ==
    /\ Returned
    /\ profile = [lookups |-> BlockingLookups, http |-> "refuses"]
    /\ \E i \in Tasks :
          /\ targets[i] = FaultyHost
          /\ \A p \in BlockingLookups : calls[i][p] = [n |-> 1, outcome |-> "fail"]
          /\ calls[i]["HTTP"] = [n |-> 1, outcome |-> "error"]
    /\ \E i \in Tasks :
          /\ targets[i] # FaultyHost
          /\ \A p \in BlockingLookups : calls[i][p] = [n |-> 1, outcome |-> "ok"]

PastDns(i) ==
    tpc[i] \in {"whois", "http_get", "http", "http_done", "build", "release", "finished"}

\* C16: the two DNS queries are independent.  Once dns_lookup is through,
\* its result has exactly the keys 'A' and 'MX', both queries have been made
\* whatever the first one did, and each key holds its own query's answer, or
\* the empty sequence if that query failed, whatever the other query did;
\* between the two queries the result holds 'A' alone and 'MX' is still to
\* be asked.
C16_DnsCategoriesIndependent ==
    \A i \in Tasks :
        /\ tpc[i] = "dns_MX" =>
              /\ DOMAIN loc[i].dns_records = {"A"}
              /\ calls[i]["A"].n = 1
              /\ calls[i]["MX"].n = 0
        /\ PastDns(i) =>
              /\ DOMAIN loc[i].dns_records = {"A", "MX"}
              /\ calls[i]["A"].n = 1
              /\ calls[i]["MX"].n = 1
              /\ loc[i].dns_records["A"] =
                    (IF LookupFails(targets[i], "A") THEN << >> ELSE ExpectedA(targets[i]))
              /\ loc[i].dns_records["MX"] =
                    (IF LookupFails(targets[i], "MX") THEN << >> ELSE ExpectedMX(targets[i]))

C16_Witness ==
    /\ "A" \in profile.lookups
    /\ "MX" \notin profile.lookups
    /\ \E i \in Tasks :
          /\ targets[i] = FaultyHost
          /\ tpc[i] = "whois"
          /\ calls[i]["A"].outcome = "fail"
          /\ calls[i]["MX"].outcome = "ok"
          /\ loc[i].dns_records = [A |-> << >>, MX |-> << "mail.b.test.", "backup.b.test." >>]

\* the task is between the start of its first lookup and the return of its last
Probing(i) == tpc[i] \in {"dns_A", "dns_MX", "whois", "http_get", "http", "http_done"}

\* C17: every lookup is made inside a held slot.  A task that has not got
\* its slot yet has made no call; a task making its lookups holds a slot; the
\* slot is released only when all four lookups have returned and the record
\* is built; so the tasks with lookups in progress are never more than the
\* slots taken, hence never more than N.
C17_LookupsInsideSlot ==
    GateMade =>
        /\ \A i \in Tasks :
              /\ Phase(tpc[i]) = "Pending" => \A p \in Providers : calls[i][p].n = 0
              /\ tpc[i] = "woken" => \A p \in Providers : calls[i][p].n = 0
              /\ Probing(i) => i \in Running
              /\ tpc[i] \in {"release", "finished"} =>
                    /\ \A p \in Providers :
                          calls[i][p].n = 1 /\ calls[i][p].outcome # "pending"
                    /\ io[i] = NoRequest
                    /\ tres[i] # Unset
              /\ io[i].outcome # "none" => tpc[i] \in {"http", "http_done"}
        /\ Cardinality({i \in Tasks : Probing(i)}) <= argv.concurrency - semValue
        /\ Cardinality({i \in Tasks : Probing(i)}) <= argv.concurrency

C17_Witness ==
    /\ argv.concurrency = 1
    /\ Tasks = {1, 2}
    /\ \E i, k \in Tasks :
          /\ tpc[i] = "http"
          /\ io[i].outcome = "pending"
          /\ admittedAfter[i] = 1
          /\ tpc[k] = "finished"
          /\ semValue = 0

\* the task is past acquire() and has not sent its HTTP request yet: it is
\* in the blocking DNS and WHOIS calls or about to call session.get
Blocking(i) == tpc[i] \in {"dns_A", "dns_MX", "whois", "http_get"}

\* where a task that is not executing can stand: not started, suspended in
\* acquire() (waiting, or woken and not resumed yet), suspended in
\* session.get, or ended
Suspended(i) == tpc[i] \in {"created", "waiting", "woken", "http", "finished", "cancelled"}

C19_TimestampsOrdered ==
    /\ [](\A j, k \in DOMAIN results :
            j < k => results[j].timestamp <= results[k].timestamp)
    /\ [](\A j, k \in DOMAIN completed :
            j < k => tres[completed[j]].timestamp <= tres[completed[k]].timestamp)
    /\ [](\A i \in Tasks : tres[i] # Unset =>
            /\ tpc[i] \in {"release", "finished"}
            /\ tres[i].timestamp <= now
            /\ \A p \in Providers : calls[i][p].n = 1 /\ calls[i][p].outcome # "pending")
    /\ [][\A i \in Tasks :
            (tres[i] = Unset /\ tres'[i] # Unset) =>
                /\ tpc[i] = "build"
                /\ loc[i].dns_records # Unset
                /\ loc[i].whois_data # Unset
                /\ loc[i].http_headers # Unset
                /\ io[i] = NoRequest
                /\ i \in Running
                /\ semValue' = semValue
                /\ tres'[i].timestamp > now
                /\ tres'[i].timestamp = now']_vars

C19_Witness ==
    /\ Returned
    /\ Len(results) = 2
    /\ completed = << 2, 1 >>
    /\ results[1].timestamp < results[2].timestamp
    /\ tres[2].timestamp < tres[1].timestamp
    /\ admittedAfter = << 0, 0 >>

\* C20: the session is opened before any task exists and, unless the run is
\* interrupted, is closed only when every probe has completed and its record
\* is collected; a request is sent only on the open session, and while a
\* request is in flight the session stays open (in a run that is not
\* interrupted); once the session is closed no task does anything but be
\* cancelled.
C20_SessionOutlivesProbes ==
    /\ [](Tasks # {} => session # "none")
    /\ [](\A i \in Tasks : admittedAfter[i] >= 0 => session # "none")
    /\ []((session = "closed" /\ ~interrupted) =>
            /\ \A i \in Tasks : tpc[i] = "finished"
            /\ Len(results) = Cardinality(Tasks)
            /\ \A i \in Tasks : Collected(i))
    /\ []((session = "closed") =>
            \A i \in Tasks : Probing(i) => (interrupted /\ tpc[i] = "http"))
    /\ [](\A i \in Tasks :
            (io[i].outcome # "none" /\ ~interrupted) => session = "open")
    /\ [][\A i \in Tasks :
            calls'[i]["HTTP"].n > calls[i]["HTTP"].n =>
                (session = "open" /\ session' = "open")]_vars
    /\ [][\A i \in Tasks :
            (session = "closed" /\ tpc'[i] # tpc[i]) => tpc'[i] = "cancelled"]_vars

C20_Witness ==
    /\ mainpc = "returned"
    /\ session = "closed"
    /\ Tasks = {1, 2}
    /\ argv.concurrency = 2
    /\ \A i \in Tasks : calls[i]["HTTP"] = [n |-> 1, outcome |-> "ok"]

====
